---- MODULE Spec2Model ----
(***************************************************************************)
(* nexus-prisma: the object-type block (blocks/objectType.ts) and the      *)
(* extend-type wrapper (definitions/extendType.ts).                        *)
(*                                                                         *)
(* JavaScript values are represented as follows.                           *)
(*   - an optional value (a property that may be undefined) is a sequence  *)
(*     of length at most one: << >> is undefined, <<v>> is the value v;    *)
(*   - an array is a sequence; an object with known keys is a record;      *)
(*   - a thrown Error is its message, a sequence of strings (NoError is    *)
(*     the empty sequence: nothing was thrown);                            *)
(*   - the calls a block receives (implements, field) are appended to the  *)
(*     block's log, in call order.                                         *)
(***************************************************************************)
EXTENDS Naturals, Sequences, FiniteSets

VARIABLES
    obj,      \* prismaTypeObject: its last call and what it returned or threw
    block,    \* the object definition block handed to the user's definition
    call,     \* the last prismaFields call on block: input, block before, error
    calls,    \* number of prismaFields calls made on block
    ext,      \* prismaExtendType: the wrapped type's resolution and definition
    extBlock  \* the extend-type block handed to the user's definition

vars == <<obj, block, call, calls, ext, extBlock>>

(***************************************************************************)
(* Bounds                                                                  *)
(***************************************************************************)
\* longest selection (explicit list, pick or filter) passed to prismaFields
MaxSel == 2
\* most prismaFields calls made on one object block
MaxCalls == 3
\* most steps (prismaFields calls, fields of its own) of a user's extend-type definition
MaxUserCalls == 2

(***************************************************************************)
(* The generated GraphQL schema (prismaSchema)                             *)
(***************************************************************************)
Named(n) == [kind |-> "Named", name |-> n, ofType |-> << >>]
ListOf(t) == [kind |-> "List", name |-> "", ofType |-> <<t>>]
NonNull(t) == [kind |-> "NonNull", name |-> "", ofType |-> <<t>>]

Arg(n, t) == [name |-> n, type |-> t]

Field(n, t, args) == [name |-> n, type |-> t, args |-> args]

PagingArgs == <<Arg("first", "Int"), Arg("last", "Int")>>

QueryFields ==
    << Field("users", NonNull(ListOf(NonNull(Named("User")))),
             <<Arg("where", "UserWhereInput")>> \o PagingArgs),
       Field("posts", NonNull(ListOf(Named("Post"))), <<Arg("first", "Int")>>) >>

UserFields ==
    << Field("id", NonNull(Named("ID")), << >>),
       Field("name", Named("String"), << >>),
       Field("posts", ListOf(NonNull(Named("Post"))), PagingArgs) >>

PostFields ==
    << Field("id", NonNull(Named("ID")), << >>),
       Field("title", NonNull(Named("String")), <<Arg("first", "Int")>>) >>

GraphQLType(kind, n, interfaces, fields) ==
    [kind |-> kind, name |-> n, interfaces |-> interfaces, fields |-> fields]

SchemaTypes ==
    { GraphQLType("Object", "Query", << >>, QueryFields),
      GraphQLType("Object", "User", <<"Node">>, UserFields),
      GraphQLType("Object", "Post", <<"Node", "Entity">>, PostFields),
      GraphQLType("Interface", "Node", << >>, << >>),
      GraphQLType("Interface", "Entity", << >>, << >>),
      GraphQLType("Scalar", "DateTime", << >>, << >>),
      GraphQLType("Enum", "Role", << >>, << >>),
      GraphQLType("Union", "SearchResult", << >>, << >>),
      GraphQLType("InputObject", "UserWhereInput", << >>, << >>) }

SchemaTypeNames == { t.name : t \in SchemaTypes }

\* the names a caller may select: every type of the schema and one absent name
TypeNames == SchemaTypeNames \cup {"Ghost"}

\* schema.getType(name): the type, or undefined
getType(name) ==
    IF name \in SchemaTypeNames
    THEN << CHOOSE t \in SchemaTypes : t.name = name >>
    ELSE << >>

\* graphql's isObjectType on an optional type
isObjectType(graphqlType) ==
    /\ graphqlType # << >>
    /\ graphqlType[1].kind = "Object"

\* String(graphqlType) as interpolated into an error message
typeToString(graphqlType) ==
    IF graphqlType = << >> THEN "undefined" ELSE graphqlType[1].name

NoError == << >>

Range(s) == { s[i] : i \in 1..Len(s) }

SeqUpTo(S, n) == UNION { [1..k -> S] : k \in 0..n }

(***************************************************************************)
(* Helpers of the package that the two files import                        *)
(***************************************************************************)
RECURSIVE getTypeName(_)
\* graphql.getTypeName: the name of the named type under the List/NonNull wrappers
getTypeName(t) ==
    IF t.kind = "Named" THEN t.name ELSE getTypeName(t.ofType[1])

RECURSIVE isListType(_)
\* whether a field's type is a list, under NonNull wrappers
isListType(t) ==
    CASE t.kind = "List" -> TRUE
      [] t.kind = "NonNull" -> isListType(t.ofType[1])
      [] OTHER -> FALSE

\* the fields of an object type, by name
FieldNames(typeName) ==
    LET t == getType(typeName)
    IN  IF isObjectType(t) THEN [i \in 1..Len(t[1].fields) |-> t[1].fields[i].name]
        ELSE << >>

\* graphql.findGraphQLTypeField: the field of the type, or a throw when the type
\* has no field of that name
findGraphQLTypeField(typeName, fieldName) ==
    LET t == getType(typeName)
    IN  IF ~isObjectType(t)
        THEN [error |-> <<"Must select a GraphQLObjectType, saw", typeName>>,
              field |-> << >>]
        ELSE IF fieldName \notin Range(FieldNames(typeName))
        THEN [error |-> <<"Field not found in type", fieldName, typeName>>,
              field |-> << >>]
        ELSE [error |-> NoError,
              field |-> << CHOOSE f \in Range(t[1].fields) : f.name = fieldName >>]

\* utils.getAllFields: every field of the type, in schema order
getAllFields(typeName) ==
    LET t == getType(typeName)
    IN  IF isObjectType(t) THEN t[1].fields ELSE << >>

\* utils.whitelistArgs: the arguments named by the whitelist, in their own
\* order; all of them when there is no whitelist
whitelistArgs(args, whitelist) ==
    IF whitelist = << >> THEN args
    ELSE SelectSeq(args, LAMBDA a : a.name \in Range(whitelist[1]))

\* graphqlToNexus.objectTypeFieldsToNexus: one field configuration per field of
\* the object type, keyed by the field's name
objectTypeFieldsToNexus(graphqlType) ==
    [ n \in { f.name : f \in Range(graphqlType.fields) } |->
        LET f == CHOOSE g \in Range(graphqlType.fields) : g.name = n
        IN  [ type |-> getTypeName(f.type),
              list |-> isListType(f.type),
              args |-> f.args,
              resolve |-> <<graphqlType.name, f.name>> ] ]

(***************************************************************************)
(* Field selections: the shapes prismaFields accepts                       *)
(***************************************************************************)
\* a selection written as a bare field name
Str(n) == [isString |-> TRUE, name |-> n, alias |-> << >>, args |-> << >>]
\* a selection written as an object { name, alias?, args? }
Sel(n, alias, args) == [isString |-> FALSE, name |-> n, alias |-> alias, args |-> args]

\* utils.normalizeFields: a bare name becomes { name }
normalizeField(item) == [name |-> item.name, alias |-> item.alias, args |-> item.args]

normalizeFields(items) == [i \in 1..Len(items) |-> normalizeField(items[i])]

\* utils.getFields: the explicit list or the pick list as given; for a filter, the
\* fields of the type whose name is not listed
getFields(inputFields, typeName) ==
    IF inputFields.shape \in {"list", "pick"}
    THEN [error |-> NoError, fields |-> normalizeFields(inputFields.items)]
    ELSE IF ~isObjectType(getType(typeName))
    THEN [error |-> <<"Must select a GraphQLObjectType, saw", typeName>>,
          fields |-> << >>]
    ELSE LET listed == { inputFields.items[i].name : i \in 1..Len(inputFields.items) }
             kept == SelectSeq(FieldNames(typeName), LAMBDA n : n \notin listed)
         IN  [error |-> NoError,
              fields |-> normalizeFields([i \in 1..Len(kept) |-> Str(kept[i])])]

(***************************************************************************)
(* blocks/objectType.ts                                                    *)
(***************************************************************************)
\* prismaTypeObject with the isObjectType test weakened to "the type exists"
prismaTypeObject_anyKind(typeName) ==
    LET graphqlType == getType(typeName)
    IN  IF graphqlType = << >>
        THEN [ typeName |-> typeName,
               error |-> <<"Must select a GraphQLObjectType, saw", typeName,
                           "which is", typeToString(graphqlType)>>,
               result |-> << >>,
               toNexusCalls |-> 0 ]
        ELSE [ typeName |-> typeName,
               error |-> NoError,
               result |-> << objectTypeFieldsToNexus(graphqlType[1]) >>,
               toNexusCalls |-> 1 ]

\* prismaTypeObject(prismaSchema, objectConfig, builderConfig), objectConfig.name
\* being typeName: what it throws or returns, and how often it called
\* objectTypeFieldsToNexus
prismaTypeObject(typeName) ==
    LET graphqlType == getType(typeName)
    IN  IF ~isObjectType(graphqlType)
        THEN [ typeName |-> typeName,
               error |-> <<"Must select a GraphQLObjectType, saw", typeName,
                           "which is", typeToString(graphqlType)>>,
               result |-> << >>,
               toNexusCalls |-> 0 ]
        ELSE [ typeName |-> typeName,
               error |-> NoError,
               result |-> << objectTypeFieldsToNexus(graphqlType[1]) >>,
               toNexusCalls |-> 1 ]

\* prismaObjectDefinitionBlock(typeName, t, prismaType, prismaSchema) on a fresh
\* nexus block t: prismaType is attached, __calledPrismaFields is not set
prismaObjectDefinitionBlock(typeName, prismaType) ==
    [ typeName |-> typeName,
      prismaType |-> prismaType,
      calledPrismaFields |-> << >>,
      log |-> << >> ]

\* the calls a nexus block receives
Implements(interfaceName) == [op |-> "implements", name |-> interfaceName, config |-> << >>]
FieldCall(fieldName, config) == [op |-> "field", name |-> fieldName, config |-> <<config>>]

\* prismaBlock.__calledPrismaFields = true
setCalled(blk) == [blk EXCEPT !.calledPrismaFields = <<TRUE>>]

\* graphqlType.getInterfaces().forEach(i => prismaBlock.implements(i.name))
declareInterfaces(blk) ==
    LET interfaces == getType(blk.typeName)[1].interfaces
    IN  [blk EXCEPT !.log = @ \o [i \in 1..Len(interfaces) |-> Implements(interfaces[i])]]

\* the alias is ignored
aliasName_ignoresAlias(field) == field.name

\* const aliasName = field.alias ? field.alias : field.name
\* (an empty string is falsy)
aliasName(field) ==
    IF field.alias # << >> /\ field.alias[1] # "" THEN field.alias[1] ELSE field.name

\* the field is looked up under the name it is registered as
lookupName_alias(field) == aliasName(field)

\* the name the field is looked up under: findGraphQLTypeField(typeName, field.name, ...)
lookupName(field) == field.name

\* the whitelist is dropped
fieldArgs_noWhitelist(config, field) == config.args

\* const args = whitelistArgs(rest.args!, field.args)
fieldArgs(config, field) == whitelistArgs(config.args, field.args)

\* the configuration passed to prismaBlock.field:
\* { ...rest, type: getTypeName(fieldType.type), list: list ? true : undefined, args }
fieldConfig(prismaType, fieldType, field) ==
    LET config == prismaType[fieldType.name]
    IN  [ resolve |-> config.resolve,
          type |-> getTypeName(fieldType.type),
          list |-> IF config.list THEN <<TRUE>> ELSE << >>,
          args |-> fieldArgs(config, field) ]

RECURSIVE registerFields(_, _)
\* fields.forEach(field => { ... prismaBlock.field(aliasName, { ... }) }); a throw
\* of findGraphQLTypeField ends the loop, the earlier registrations stay
registerFields(blk, fields) ==
    IF fields = << >> THEN [block |-> blk, error |-> NoError]
    ELSE LET field == Head(fields)
             found == findGraphQLTypeField(blk.typeName, lookupName(field))
         IN  IF found.error # NoError THEN [block |-> blk, error |-> found.error]
             ELSE registerFields(
                      [blk EXCEPT !.log = Append(@,
                          FieldCall(aliasName(field),
                                    fieldConfig(blk.prismaType, found.field[1], field)))],
                      Tail(fields))

\* the loop stops after the first field
registerFields_firstOnly(blk, fields) ==
    registerFields(blk, IF fields = << >> THEN fields ELSE <<Head(fields)>>)

\* the fields of the selection are registered one by one
registerSelection(blk, fields) == registerFields(blk, fields)

\* the interfaces are declared after the fields
prismaFieldsBody_fieldsFirst(blk, inputFields) ==
    LET selected == getFields(inputFields, blk.typeName)
    IN  IF selected.error # NoError THEN [block |-> blk, error |-> selected.error]
        ELSE LET r == registerSelection(blk, selected.fields)
             IN  IF r.error # NoError THEN r
                 ELSE [r EXCEPT !.block = declareInterfaces(r.block)]

\* prismaFields after its first statement: the type and the selection are
\* read, the interfaces declared, the fields registered
prismaFieldsBody(blk, inputFields) ==
    LET selected == getFields(inputFields, blk.typeName)
    IN  IF selected.error # NoError THEN [block |-> blk, error |-> selected.error]
        ELSE IF ~isObjectType(getType(blk.typeName))
        THEN [block |-> blk, error |-> <<"TypeError: getInterfaces">>]
        ELSE registerSelection(declareInterfaces(blk), selected.fields)

\* the flag is set last, when nothing threw
prismaFields_flagLast(blk, inputFields) ==
    LET r == prismaFieldsBody(blk, inputFields)
    IN  IF r.error # NoError THEN r ELSE [r EXCEPT !.block = setCalled(r.block)]

\* prismaBlock.prismaFields(inputFields): the block after the call and what the
\* call threw
prismaFields(blk, inputFields) == prismaFieldsBody(setCalled(blk), inputFields)

(***************************************************************************)
(* definitions/extendType.ts                                               *)
(***************************************************************************)
Builders == {"SchemaBuilder", "PrismaSchemaBuilder"}

\* builder.isPrismaSchemaBuilder: only makePrismaSchema's builder is one
isPrismaSchemaBuilder(builder) == builder = "PrismaSchemaBuilder"

\* blocks/extendType.prismaTypeExtend: the field configurations of the extended
\* type, or a throw when it is no object type of the schema
prismaTypeExtend(typeName) ==
    LET graphqlType == getType(typeName)
    IN  IF ~isObjectType(graphqlType)
        THEN [ error |-> <<"Must select a GraphQLObjectType, saw", typeName,
                           "which is", typeToString(graphqlType)>>,
               result |-> << >> ]
        ELSE [ error |-> NoError,
               result |-> << objectTypeFieldsToNexus(graphqlType[1]) >> ]

\* blocks/extendType.prismaExtendTypeBlock on a fresh nexus block: its
\* prismaFields sets __calledPrismaFields and registers the selected fields;
\* prismaFieldsCalls lists the arguments prismaFields was called with
prismaExtendTypeBlock(typeName, prismaType) ==
    [ typeName |-> typeName,
      prismaType |-> prismaType,
      calledPrismaFields |-> << >>,
      log |-> << >>,
      prismaFieldsCalls |-> << >> ]

\* prismaFields of the extend-type block
extendPrismaFields(blk, inputFields) ==
    LET b1 == [blk EXCEPT !.calledPrismaFields = <<TRUE>>,
                          !.prismaFieldsCalls = Append(@, inputFields)]
        selected == getFields(inputFields, blk.typeName)
    IN  IF selected.error # NoError THEN [block |-> b1, error |-> selected.error]
        ELSE registerFields(b1, selected.fields)

\* the state of a wrapped type before the schema builder resolves it
Unresolved ==
    [ stage |-> "unresolved", builder |-> "", type |-> "", error |-> NoError,
      getNexusPrismaSchemaCalls |-> 0, getConfigCalls |-> 0,
      prismaTypeExtendCalls |-> 0, definitionCalls |-> 0, defaultCalls |-> 0,
      userCalls |-> << >>, def |-> << >> ]

\* nexusExtendType(typeConfig, builder), typeConfig.type being typeName: the
\* builder is asked for its schema and its config, prismaTypeExtend is called,
\* and the extend-type definition is returned; its definition has not run yet
nexusExtendType(typeName, builder) ==
    LET prismaType == prismaTypeExtend(typeName)
        asked == [Unresolved EXCEPT !.builder = builder, !.type = typeName,
                                    !.getNexusPrismaSchemaCalls = 1,
                                    !.getConfigCalls = 1,
                                    !.prismaTypeExtendCalls = 1]
    IN  IF prismaType.error # NoError
        THEN [asked EXCEPT !.stage = "threw", !.error = prismaType.error]
        ELSE [asked EXCEPT !.stage = "resolved",
                  !.def = << [ prismaType |-> prismaType.result[1],
                               allFieldsNames |->
                                   [i \in 1..Len(getAllFields(typeName)) |->
                                       getAllFields(typeName)[i].name] ] >>]

\* the message of the error thrown for any other builder (makePrismaSchema is
\* quoted in the message)
OnlyMakePrismaSchema == <<"prismaExtendType can only be used by", "makePrismaSchema">>

\* the builder is not checked
prismaExtendType_unchecked(typeName, builder) == nexusExtendType(typeName, builder)

\* the resolver of the wrapped type prismaExtendType returns, given the builder
prismaExtendType(typeName, builder) ==
    IF ~isPrismaSchemaBuilder(builder)
    THEN [Unresolved EXCEPT !.builder = builder, !.type = typeName,
                            !.stage = "threw", !.error = OnlyMakePrismaSchema]
    ELSE nexusExtendType(typeName, builder)

\* what a user's definition does with the block, step by step: a prismaFields
\* call, or a field of its own registered with nexus' t.field
CallsPrismaFields(inputFields) == [native |-> FALSE, inputFields |-> inputFields]
CallsField == [native |-> TRUE, inputFields |-> [shape |-> "list", items |-> << >>]]

\* t.field('extra', ...): a field the user defines by hand
nativeField(blk) ==
    [ block |-> [blk EXCEPT !.log = Append(@,
                     FieldCall("extra", [ resolve |-> <<"user", "extra">>, type |-> "String",
                                          list |-> << >>, args |-> << >> ]))],
      error |-> NoError ]

\* one step of the user's definition
userStep(blk, step) ==
    IF step.native THEN nativeField(blk) ELSE extendPrismaFields(blk, step.inputFields)

\* the user's definition(prismaBlock): its steps, in order; a prismaFields call
\* that throws ends it (after[k] is the outcome of the first k steps)
runDefinition(blk, userCalls) ==
    LET after[k \in 0..Len(userCalls)] ==
            IF k = 0 THEN [block |-> blk, error |-> NoError]
            ELSE IF after[k - 1].error # NoError THEN after[k - 1]
            ELSE userStep(after[k - 1].block, userCalls[k])
    IN  after[Len(userCalls)]

\* the selection of the default call: prismaFields(allFieldsNames)
defaultSelection(allFieldsNames) ==
    [ shape |-> "list",
      items |-> [i \in 1..Len(allFieldsNames) |-> Str(allFieldsNames[i])] ]

\* the default call is made whatever the flag says
needsDefault_always(blk) == TRUE

\* if (!prismaBlock.__calledPrismaFields)
needsDefault(blk) == blk.calledPrismaFields # <<TRUE>>

\* the outcome of the definition, given that of a prismaFields call
outcome(r, defaultCalls) == [block |-> r.block, error |-> r.error, defaultCalls |-> defaultCalls]

\* if (!prismaBlock.__calledPrismaFields) prismaBlock.prismaFields(allFieldsNames),
\* user being the outcome of the user's definition; not reached when that threw
defaultCall(user, allFieldsNames) ==
    IF user.error # NoError THEN outcome(user, 0)
    ELSE IF needsDefault(user.block)
    THEN outcome(extendPrismaFields(user.block, defaultSelection(allFieldsNames)), 1)
    ELSE outcome(user, 0)

\* definition(block) of the extend type: the prisma block is built, the user's
\* definition runs, then the default prismaFields call if none was made
extendDefinition(typeName, def, userCalls) ==
    defaultCall(runDefinition(prismaExtendTypeBlock(typeName, def.prismaType), userCalls),
                def.allFieldsNames)

(***************************************************************************)
(* Inputs                                                                  *)
(***************************************************************************)
ObjectTypeNames == { n \in TypeNames : isObjectType(getType(n)) }

\* the field names a selection may name: the type's own and one it has not
SelectableNames(typeName) == Range(FieldNames(typeName)) \cup {"ghost"}

Aliases == { << >>, <<"">>, <<"customers">>, <<"posts">> }

Whitelists == { << >>, << <<"first">> >>, << <<"last", "first">> >> }

\* a selection: a bare name, or an object with an alias, with a whitelist, with
\* both or with neither
Selections(typeName) ==
    { Str(n) : n \in SelectableNames(typeName) }
        \cup { Sel(n, a, << >>) : n \in SelectableNames(typeName), a \in Aliases }
        \cup { Sel(n, << >>, w) : n \in SelectableNames(typeName), w \in Whitelists }
        \cup { Sel(n, <<"customers">>, << <<"first">> >>) : n \in SelectableNames(typeName) }

\* a filter lists names, bare or as { name }
FilterSelections(typeName) ==
    { Str(n) : n \in SelectableNames(typeName) }
        \cup { Sel(n, << >>, << >>) : n \in SelectableNames(typeName) }

Input(shape, items) == [shape |-> shape, items |-> items]

InputFields(typeName) ==
    { Input(shape, items) : shape \in {"list", "pick"},
                            items \in SeqUpTo(Selections(typeName), MaxSel) }
        \cup { Input("filter", items) : items \in SeqUpTo(FilterSelections(typeName), MaxSel) }

\* a few selections of each shape, one of which throws
FewInputFields(typeName) ==
    LET first == FieldNames(typeName)[1]
    IN  { Input("list", << >>),
          Input("list", <<Str(first)>>),
          Input("list", <<Str("ghost"), Str(first)>>),
          Input("pick", <<Sel(first, <<"customers">>, << >>)>>),
          Input("filter", << >>),
          Input("filter", <<Str(first)>>) }

\* the steps a user's extend-type definition is made of
UserSteps(typeName) ==
    { CallsPrismaFields(inputFields) : inputFields \in FewInputFields(typeName) }
        \cup { CallsField }

(***************************************************************************)
(* The state machine                                                       *)
(***************************************************************************)
Init ==
    /\ obj = << >>
    /\ block = << >>
    /\ call = << >>
    /\ calls = 0
    /\ ext = Unresolved
    /\ extBlock = << >>

\* prismaObjectType's configuration names a type: prismaTypeObject runs
PrismaTypeObject ==
    /\ obj = << >>
    /\ \E typeName \in TypeNames : obj' = << prismaTypeObject(typeName) >>
    /\ UNCHANGED <<block, call, calls, ext, extBlock>>

\* nexus runs the object type's definition: the block is built
PrismaObjectDefinitionBlock ==
    /\ obj # << >>
    /\ obj[1].error = NoError
    /\ block = << >>
    /\ block' = << prismaObjectDefinitionBlock(obj[1].typeName, obj[1].result[1]) >>
    /\ UNCHANGED <<obj, call, calls, ext, extBlock>>

\* one prismaFields call on the block
PrismaFieldsCall(inputFields) ==
    LET r == prismaFields(block[1], inputFields)
    IN  /\ block' = << r.block >>
        /\ call' = << [inputFields |-> inputFields, before |-> block[1], error |-> r.error] >>
        /\ calls' = calls + 1
        /\ UNCHANGED <<obj, ext, extBlock>>

\* the user's definition calls prismaFields on the fresh block
PrismaFields ==
    /\ block # << >>
    /\ calls = 0
    /\ \E inputFields \in InputFields(block[1].typeName) : PrismaFieldsCall(inputFields)

\* the user's definition calls prismaFields, again and again
PrismaFieldsAgain ==
    /\ block # << >>
    /\ calls < MaxCalls
    /\ \E inputFields \in FewInputFields(block[1].typeName) : PrismaFieldsCall(inputFields)

\* the schema builder resolves the wrapped type of prismaExtendType
ResolveWrappedType ==
    /\ ext.stage = "unresolved"
    /\ \E typeName \in TypeNames, builder \in Builders :
           ext' = prismaExtendType(typeName, builder)
    /\ UNCHANGED <<obj, block, call, calls, extBlock>>

\* nexus runs the definition of the extend type that was returned
ExtendDefinition ==
    /\ ext.stage = "resolved"
    /\ \E userCalls \in SeqUpTo(UserSteps(ext.type), MaxUserCalls) :
           LET r == extendDefinition(ext.type, ext.def[1], userCalls)
           IN  /\ extBlock' = << r.block >>
               /\ ext' = [ext EXCEPT !.stage = "defined",
                                     !.error = r.error,
                                     !.definitionCalls = @ + 1,
                                     !.defaultCalls = r.defaultCalls,
                                     !.userCalls = userCalls]
    /\ UNCHANGED <<obj, block, call, calls>>

\* an object type whose definition calls prismaFields once, with any selection
Next == PrismaTypeObject \/ PrismaObjectDefinitionBlock \/ PrismaFields

Spec == Init /\ [][Next]_vars

\* an object type whose definition calls prismaFields several times
NextCalls == PrismaTypeObject \/ PrismaObjectDefinitionBlock \/ PrismaFieldsAgain

SpecCalls == Init /\ [][NextCalls]_vars

\* an extend type, from the resolution of the wrapped type to its definition
NextExtend == ResolveWrappedType \/ ExtendDefinition

SpecExtend == Init /\ [][NextExtend]_vars

(***************************************************************************)
(* Properties                                                              *)
(***************************************************************************)
\* the object types of the schema, read off the schema itself
IsObjectTypeName(n) == \E t \in SchemaTypes : t.name = n /\ t.kind = "Object"

\* the field of an object type, read off the schema itself
SchemaField(typeName, fieldName) ==
    CHOOSE f \in Range((CHOOSE t \in SchemaTypes : t.name = typeName).fields) :
        f.name = fieldName

HasField(typeName, fieldName) ==
    \E f \in Range((CHOOSE t \in SchemaTypes : t.name = typeName).fields) :
        f.name = fieldName

InterfacesOf(typeName) == (CHOOSE t \in SchemaTypes : t.name = typeName).interfaces

\* what the last prismaFields call appended to the block's log
ThisCallLog == SubSeq(block[1].log, Len(call[1].before.log) + 1, Len(block[1].log))

FieldCalls(log) == SelectSeq(log, LAMBDA e : e.op = "field")

\* the selections of the last call and the type they select from
Selected == call[1].inputFields.items
SelectedFrom == block[1].typeName

\* the selections in front of the first one that names no field of the type:
\* the ones the call reaches before it throws, all of them when it does not
Reached(typeName, items) ==
    LET unknown == { i \in 1..Len(items) : ~HasField(typeName, items[i].name) }
    IN  IF unknown = {} THEN Len(items)
        ELSE (CHOOSE i \in unknown : \A j \in unknown : i <= j) - 1

\* the last call was given an explicit list or a pick
ListOrPick == call # << >> /\ call[1].inputFields.shape \in {"list", "pick"}

\* C1: resolved with a builder that is no prisma schema builder, the wrapped type
\* of prismaExtendType throws 'prismaExtendType can only be used by
\* `makePrismaSchema`' at once: the builder was asked for nothing,
\* prismaTypeExtend was not called, the user's definition never ran and no
\* extend type came back; with a prisma schema builder that error is not thrown
C1_NonPrismaBuilderThrowsAtOnce ==
    ext.stage # "unresolved" =>
        /\ ext.builder # "PrismaSchemaBuilder" =>
               /\ ext.stage = "threw"
               /\ ext.error = OnlyMakePrismaSchema
               /\ ext.getNexusPrismaSchemaCalls = 0
               /\ ext.getConfigCalls = 0
               /\ ext.prismaTypeExtendCalls = 0
               /\ ext.definitionCalls = 0
               /\ ext.def = << >>
               /\ extBlock = << >>
        /\ ext.builder = "PrismaSchemaBuilder" => ext.error # OnlyMakePrismaSchema

\* an extend type of an object type of the schema was resolved with nexus' own builder
C1_Witness ==
    /\ ext.stage = "threw"
    /\ ext.builder = "SchemaBuilder"
    /\ ext.type = "User"
    /\ ext.error = OnlyMakePrismaSchema

\* C2: prismaTypeObject throws an error naming the selected type whenever the
\* name is no object type of the schema (absent, scalar, enum, interface, union
\* or input type) and then never calls objectTypeFieldsToNexus; for an object
\* type it does not throw and returns objectTypeFieldsToNexus of that type
C2_NonObjectTypeThrows ==
    obj # << >> =>
        /\ ~IsObjectTypeName(obj[1].typeName) =>
               /\ obj[1].error # NoError
               /\ obj[1].typeName \in Range(obj[1].error)
               /\ obj[1].toNexusCalls = 0
               /\ obj[1].result = << >>
        /\ IsObjectTypeName(obj[1].typeName) =>
               /\ obj[1].error = NoError
               /\ obj[1].toNexusCalls = 1
               /\ obj[1].result =
                      << objectTypeFieldsToNexus(
                             CHOOSE t \in SchemaTypes : t.name = obj[1].typeName) >>

\* an enum of the schema was selected, and the error names it
C2_Witness ==
    /\ obj # << >>
    /\ obj[1].typeName = "Role"
    /\ obj[1].error = <<"Must select a GraphQLObjectType, saw", "Role", "which is", "Role">>

\* the registrations of an explicit list or pick, under a rule for the
\* registered name: one per selection reached, in order, each with the
\* configuration of the field the selection names
RegistersEachSelection(RegisteredName(_)) ==
    ListOrPick =>
        LET registered == FieldCalls(ThisCallLog)
            n == Reached(SelectedFrom, Selected)
        IN  /\ Len(registered) = n
            /\ (call[1].error = NoError) = (n = Len(Selected))
            /\ \A i \in 1..n :
                   LET underlying == SchemaField(SelectedFrom, Selected[i].name)
                       config == registered[i].config[1]
                   IN  /\ registered[i].name = RegisteredName(Selected[i])
                       /\ config.resolve = <<SelectedFrom, underlying.name>>
                       /\ config.type = getTypeName(underlying.type)
                       /\ config.list = (IF isListType(underlying.type) THEN <<TRUE>> ELSE << >>)
                       /\ Range(config.args) \subseteq Range(underlying.args)

AliasIfGiven(selection) ==
    IF selection.alias # << >> THEN selection.alias[1] ELSE selection.name

AliasIfNotEmpty(selection) ==
    IF selection.alias # << >> /\ selection.alias[1] # ""
    THEN selection.alias[1] ELSE selection.name

C4_OnlyWhitelistedArgs ==
    ListOrPick =>
        LET registered == FieldCalls(ThisCallLog)
        IN  /\ \A i \in 1..Len(registered) :
                   LET underlying == SchemaField(SelectedFrom, Selected[i].name)
                       args == registered[i].config[1].args
                   IN  IF Selected[i].args = << >> THEN args = underlying.args
                       ELSE args = SelectSeq(underlying.args,
                                LAMBDA a : a.name \in Range(Selected[i].args[1]))
            /\ block[1].prismaType = call[1].before.prismaType
            /\ \A n \in Range(FieldNames(SelectedFrom)) :
                   block[1].prismaType[n].args = SchemaField(SelectedFrom, n).args

\* users (args where, first, last) was selected with the whitelist last, first
\* and registered with first and last only
C4_Witness ==
    /\ ListOrPick
    /\ \E i \in 1..Len(FieldCalls(ThisCallLog)) :
           /\ Selected[i].name = "users"
           /\ Selected[i].args = << <<"last", "first">> >>
           /\ FieldCalls(ThisCallLog)[i].config[1].args = PagingArgs

\* the call of the other shape (pick for a list, list for a pick) with the same
\* selection on the block as it was before the last call
OtherShape ==
    prismaFields(call[1].before,
                 Input(IF call[1].inputFields.shape = "list" THEN "pick" ELSE "list",
                       Selected))

C6_FilterRegistersTheRest ==
    (call # << >> /\ call[1].inputFields.shape = "filter") =>
        LET registered == FieldCalls(ThisCallLog)
            listed == { Selected[i].name : i \in 1..Len(Selected) }
            rest == SelectSeq(FieldNames(SelectedFrom), LAMBDA n : n \notin listed)
        IN  /\ call[1].error = NoError
            /\ Len(registered) = Len(rest)
            /\ \A i \in 1..Len(rest) :
                   /\ registered[i].name = rest[i]
                   /\ registered[i].config[1].resolve = <<SelectedFrom, rest[i]>>
            /\ \A i \in 1..Len(registered) : registered[i].name \notin listed

\* id of User was filtered out: name and posts were registered
C6_Witness ==
    /\ call # << >>
    /\ call[1].inputFields = Input("filter", <<Str("id")>>)
    /\ SelectedFrom = "User"
    /\ Len(FieldCalls(ThisCallLog)) = 2
    /\ FieldCalls(ThisCallLog)[1].name = "name"
    /\ FieldCalls(ThisCallLog)[2].name = "posts"

\* C7: a prismaFields call that gets past field selection declares every
\* interface of the object type, once each and by name, before it registers
\* any field, whatever is selected and also when nothing is
C7_InterfacesBeforeFields ==
    (call # << >> /\ getFields(call[1].inputFields, SelectedFrom).error = NoError) =>
        LET interfaces == InterfacesOf(SelectedFrom)
        IN  /\ Len(ThisCallLog) >= Len(interfaces)
            /\ \A i \in 1..Len(ThisCallLog) :
                   IF i <= Len(interfaces)
                   THEN ThisCallLog[i] = Implements(interfaces[i])
                   ELSE ThisCallLog[i].op = "field"

\* Post (interfaces Node and Entity) with a selection of two fields: the two
\* interfaces were declared, then the fields registered
C7_Witness ==
    /\ call # << >>
    /\ SelectedFrom = "Post"
    /\ Len(Selected) = 2
    /\ Len(ThisCallLog) = 4
    /\ ThisCallLog[2] = Implements("Entity")
    /\ ThisCallLog[4].op = "field"

\* the prismaFields calls among the steps of a user's definition
PrismaFieldsSteps(steps) == SelectSeq(steps, LAMBDA step : ~step.native)

\* the names under which fields were registered on the extend block, in order
RegisteredNames(log) == [i \in 1..Len(FieldCalls(log)) |-> FieldCalls(log)[i].name]

\* C8: in the extend type's definition the user's definition runs first; when
\* it returns without a prismaFields call, prismaFields is called once, with
\* the names of all fields of the type, after what the user registered; when it
\* called prismaFields, no default call is made and prismaFields was called
\* with the user's selections only
C8_DefaultOnlyWhenNotCalled ==
    ext.stage = "defined" =>
        LET userCalls == PrismaFieldsSteps(ext.userCalls)
            made == extBlock[1].prismaFieldsCalls
        IN  /\ ext.definitionCalls = 1
            /\ userCalls = << >> =>
                   /\ ext.defaultCalls = 1
                   /\ made = << Input("list", [i \in 1..Len(FieldNames(ext.type)) |->
                                                  Str(FieldNames(ext.type)[i])]) >>
                   /\ RegisteredNames(extBlock[1].log) =
                          [i \in 1..Len(ext.userCalls) |-> "extra"] \o FieldNames(ext.type)
            /\ userCalls # << >> =>
                   /\ ext.defaultCalls = 0
                   /\ Len(made) \in 1..Len(userCalls)
                   /\ \A i \in 1..Len(made) : made[i] = userCalls[i].inputFields
                   /\ (ext.error = NoError) => Len(made) = Len(userCalls)

\* a definition that registers a field of its own and never calls prismaFields:
\* the default call followed
C8_Witness ==
    /\ ext.stage = "defined"
    /\ ext.type = "User"
    /\ ext.userCalls = <<CallsField>>
    /\ ext.defaultCalls = 1
    /\ RegisteredNames(extBlock[1].log) = <<"extra", "id", "name", "posts">>

\* C9: on a block, __calledPrismaFields is true exactly when prismaFields was
\* called at least once, whether or not a call threw, and whatever was
\* registered; it is not true on a block prismaFields was never called on
C9_CalledFlag ==
    block # << >> =>
        (block[1].calledPrismaFields = <<TRUE>>) = (calls >= 1)

\* C9: once true, the flag stays true
C9_FlagNeverReset ==
    [][(block # << >> /\ block[1].calledPrismaFields = <<TRUE>>)
           => block'[1].calledPrismaFields = <<TRUE>>]_vars

\* the only call made threw before registering a field: the flag is true
C9_Witness ==
    /\ block # << >>
    /\ calls = 1
    /\ call[1].error # NoError
    /\ FieldCalls(block[1].log) = << >>
    /\ block[1].calledPrismaFields = <<TRUE>>

====
